---- MODULE Spec2Model ----
(***************************************************************************)
(* A model of the Lambda handler of src/hello-world/main.go: for every     *)
(* upload-event record HandleRequest fetches the object, opens an Avro OCF *)
(* reader on it, decodes the data one by one, appends every datum that is  *)
(* a field mapping to batchData and hands batchData to                     *)
(* indexBatchToOpenSearch when it holds 1000 records and once more for the *)
(* remainder when the reader stops.                                        *)
(*                                                                         *)
(* The handler is single-threaded.  Its blocking calls are the steps of    *)
(* the model: GetObject with NewOCFReader, one turn of the decode loop,    *)
(* and the bulk call, which is in flight between its POST and its return.  *)
(* What the byte source, the container file and the search backend answer  *)
(* is the environment's choice, drawn with \E in the actions.              *)
(*                                                                         *)
(* A record is named by the pair <<i, p>>: the p-th datum of the i-th      *)
(* upload-event record's file.                                             *)
(***************************************************************************)
EXTENDS Integers, Sequences, FiniteSets

\* The flush threshold of the decode loop (len(batchData) >= 1000).
BatchSize == 1000

\* http.StatusOK.
StatusOK == 200

\* ---- bounds of the model ------------------------------------------------
\* Upload-event records in one invocation.
MaxEvents == 2
\* Data in the file of a one-record invocation.
MaxRecords == 1002
\* Data in each file of an invocation of several records.
MaxShort == 1
\* Only the first MaxBad data of a file may fail the field-mapping assertion.
MaxBad == 2

\* Statuses the backend answers with: StatusOK, another 2xx, and a 5xx.
Statuses == {StatusOK, StatusOK + 1, 500}

\* What client.Do yields: a transport failure with its cause and no response,
\* or a response with its status and no error.
Responses == {[cause |-> "refused", status |-> 0]}
               \cup {[cause |-> "nil", status |-> s] : s \in Statuses}

VARIABLES
  nEvents,    \* len(s3Event.Records)
  idx,        \* the upload-event record of the current turn of the outer loop
  pc,         \* where the handler stands
  pos,        \* data the reader has handed out from the current file
  rerr,       \* the reader's error: "nil", "datum" or "block"
  batchData,  \* the accumulator
  bulk,       \* the calls of indexBatchToOpenSearch, in order
  wire,       \* the POSTs the backend's endpoint was sent, in order
  fetched,    \* the upload-event records GetObject was called for
  fatal,      \* the upload-event record the handler returned early on, or 0
  cause,      \* why it did: "none", "source" or "header"
  skipped,    \* the records the decode loop skipped
  nread,      \* per upload-event record, the data its reader handed out
  stop,       \* per upload-event record, what ended its decode loop
  unread      \* the files whose decode loop ended with data left unread

vars == <<nEvents, idx, pc, pos, rerr, batchData, bulk, wire, fetched, fatal,
          cause, skipped, nread, stop, unread>>

\* The normalizer at work on one record (lines 72-134).
VARIABLES
  rawDatum,   \* the record the range loop mutates in place
  todo,       \* the keys the range loop has yet to yield, in its order
  datum0,     \* the record as it was decoded
  pass,       \* 0: no record; 1: its normalization; 2: a second one
  first       \* the record as the first normalization left it

nvars == <<rawDatum, todo, datum0, pass, first>>

\* The renderer at work on one batch (lines 163-175).
VARIABLES
  policy,     \* the bulk action policy of the pipeline
  inBatch,    \* the batch handed to the renderer
  done,       \* the records of the batch the renderer's loop has gone through
  buffer      \* the lines written to the request body so far

rvars == <<policy, inBatch, done, buffer>>

\* No record is being normalized.
NormIdle ==
  /\ rawDatum = << >>
  /\ todo = << >>
  /\ datum0 = << >>
  /\ pass = 0
  /\ first = << >>

\* No batch is being rendered.
RenderIdle ==
  /\ policy = "none"
  /\ inBatch = << >>
  /\ done = 0
  /\ buffer = << >>

\* The answer of a bulk call that has not returned yet.
Pending == [cause |-> "pending", status |-> 0]

\* ---- indexBatchToOpenSearch ---------------------------------------------

\* The requests one call sends: a single POST to <url>/_bulk whose body is
\* the rendered batch, kept here as the file and the number of documents.
BulkRequests(file, docs) ==
  << [file |-> file, ndocs |-> Len(docs)] >>

\* IndexError with every 2xx status taken for success.
IndexErrorAny2xx(resp) ==
  IF resp.cause # "nil" THEN <<"error sending bulk request", resp.cause>>
  ELSE IF resp.status \div 100 # 2 THEN <<"error response", resp.status>>
  ELSE <<"nil">>

\* The error the call returns for what client.Do yielded: the transport's
\* cause, the status of a response other than 200, or nil.
IndexError(resp) ==
  IF resp.cause # "nil" THEN <<"error sending bulk request", resp.cause>>
  ELSE IF resp.status # StatusOK THEN <<"error response", resp.status>>
  ELSE <<"nil">>

\* ---- HandleRequest ------------------------------------------------------

\* The data a file of this invocation may hold: the file of a one-record
\* invocation is long enough to fill batchData and leave a remainder, the
\* files of an invocation of several records are short.
Limit == IF nEvents = 1 THEN MaxRecords ELSE MaxShort

\* BatchFull with the threshold missed by one.
BatchFullLate(batch) == Len(batch) > BatchSize

\* The test that hands batchData to the bulk call inside the decode loop.
BatchFull(batch) == Len(batch) >= BatchSize

\* HasRemainder that leaves a single record behind.
HasRemainderOverOne(batch) == Len(batch) > 1

\* HasRemainder that holds of the empty batch too.
HasRemainderAlways(batch) == Len(batch) >= 0

\* The test that hands the remainder to the bulk call after the loop.
HasRemainder(batch) == Len(batch) > 0

\* batchData after the bulk call of a full batch returned.
ResetBatch(batch) == << >>

HandlerInit ==
  /\ nEvents \in 0..MaxEvents
  /\ idx = 0
  /\ pc = "fetch"
  /\ pos = 0
  /\ rerr = "nil"
  /\ batchData = << >>
  /\ bulk = << >>
  /\ wire = << >>
  /\ fetched = {}
  /\ fatal = 0
  /\ cause = "none"
  /\ skipped = {}
  /\ nread = [i \in 1..nEvents |-> 0]
  /\ stop = [i \in 1..nEvents |-> "none"]
  /\ unread = {}

\* The handler is invoked; no record is singled out for the normalizer and
\* no batch for the renderer.
Init ==
  /\ HandlerInit
  /\ NormIdle
  /\ RenderIdle

\* The range loop has no record left: the handler returns.
Finish ==
  /\ pc = "fetch"
  /\ UNCHANGED <<nvars, rvars>>
  /\ idx = nEvents
  /\ pc' = "done"
  /\ UNCHANGED <<nEvents, idx, pos, rerr, batchData, bulk, wire, fetched,
                 fatal, cause, skipped, nread, stop, unread>>

\* OnFatal without the return: the handler goes on to the decode loop.
OnFatalFallsThrough ==
  pc' = "scan"

\* OnFatal with continue for return: the outer loop goes on.
OnFatalContinues ==
  pc' = "fetch"

\* What the handler does when GetObject or NewOCFReader returns an error:
\* it prints the error and returns.
OnFatal ==
  pc' = "done"

\* GetObject fails for the next upload-event record.
GetObjectFails ==
  /\ pc = "fetch"
  /\ UNCHANGED <<nvars, rvars>>
  /\ idx < nEvents
  /\ idx' = idx + 1
  /\ fetched' = fetched \cup {idx + 1}
  /\ fatal' = idx + 1
  /\ cause' = "source"
  /\ OnFatal
  /\ UNCHANGED <<nEvents, pos, rerr, batchData, bulk, wire, skipped, nread,
                 stop, unread>>

\* GetObject succeeds and NewOCFReader rejects the file's header.
NewReaderFails ==
  /\ pc = "fetch"
  /\ UNCHANGED <<nvars, rvars>>
  /\ idx < nEvents
  /\ idx' = idx + 1
  /\ fetched' = fetched \cup {idx + 1}
  /\ fatal' = idx + 1
  /\ cause' = "header"
  /\ OnFatal
  /\ UNCHANGED <<nEvents, pos, rerr, batchData, bulk, wire, skipped, nread,
                 stop, unread>>

\* NewBatch with one accumulator for all files of the invocation.
NewBatchShared(batch) == batch

\* var batchData []interface{}, declared in the body of the outer loop: every
\* upload-event record gets a new, empty accumulator.
NewBatch(batch) == << >>

\* GetObject and NewOCFReader succeed: a fresh reader and an empty batchData.
FetchOpens ==
  /\ pc = "fetch"
  /\ UNCHANGED <<nvars, rvars>>
  /\ idx < nEvents
  /\ idx' = idx + 1
  /\ fetched' = fetched \cup {idx + 1}
  /\ pos' = 0
  /\ rerr' = "nil"
  /\ batchData' = NewBatch(batchData)
  /\ pc' = "scan"
  /\ UNCHANGED <<nEvents, bulk, wire, fatal, cause, skipped, nread, stop,
                 unread>>

\* CallIndex in a goroutine of its own: the handler does not wait for it.
CallIndexAsync(docs, site) ==
  /\ bulk' = Append(bulk, [file |-> idx, site |-> site, docs |-> docs,
                           resp |-> Pending, err |-> <<"pending">>])
  /\ wire' = wire \o BulkRequests(idx, docs)
  /\ pc' = IF site = "full" THEN "scan" ELSE "fetch"

\* The call of indexBatchToOpenSearch(docs) from one of its two sites: its
\* request goes out and the handler waits for the call to return.
CallIndex(docs, site) ==
  /\ bulk' = Append(bulk, [file |-> idx, site |-> site, docs |-> docs,
                           resp |-> Pending, err |-> <<"pending">>])
  /\ wire' = wire \o BulkRequests(idx, docs)
  /\ pc' = IF site = "full" THEN "indexFull" ELSE "indexRest"

\* Scan yields a datum, Read decodes it to a field mapping: it is normalized
\* and appended, and a full batchData is handed to the bulk call.
ReadRecord ==
  /\ pc = "scan"
  /\ UNCHANGED <<nvars, rvars>>
  /\ rerr = "nil"
  /\ pos < Limit
  /\ pos' = pos + 1
  /\ nread' = [nread EXCEPT ![idx] = pos + 1]
  /\ LET batch == Append(batchData, <<idx, pos + 1>>)
     IN  /\ batchData' = batch
         /\ IF BatchFull(batch)
              THEN CallIndex(batch, "full")
              ELSE UNCHANGED <<bulk, wire, pc>>
  /\ UNCHANGED <<nEvents, idx, rerr, fetched, fatal, cause, skipped, stop,
                 unread>>

\* Scan yields a datum that Read decodes to something else than a field
\* mapping: the loop continues with the next datum.
ReadNotMap ==
  /\ pc = "scan"
  /\ UNCHANGED <<nvars, rvars>>
  /\ rerr = "nil"
  /\ pos < Limit
  /\ pos < MaxBad
  /\ pos' = pos + 1
  /\ nread' = [nread EXCEPT ![idx] = pos + 1]
  /\ skipped' = skipped \cup {<<idx, pos + 1>>}
  /\ UNCHANGED <<nEvents, idx, pc, rerr, batchData, bulk, wire, fetched,
                 fatal, cause, stop, unread>>

\* Scan yields a datum and Read fails to decode it: the error is printed and
\* the loop continues with the next Scan.  The reader keeps the error:
\* goavro's OCFReader.Read stores it in its rerr field, which only
\* SkipThisBlockAndReset clears, and the handler never calls that.
ReadError ==
  /\ pc = "scan"
  /\ UNCHANGED <<nvars, rvars>>
  /\ rerr = "nil"
  /\ pos < Limit
  /\ pos' = pos + 1
  /\ nread' = [nread EXCEPT ![idx] = pos + 1]
  /\ skipped' = skipped \cup {<<idx, pos + 1>>}
  /\ rerr' = "datum"
  /\ UNCHANGED <<nEvents, idx, pc, batchData, bulk, wire, fetched, fatal,
                 cause, stop, unread>>

\* LeaveLoop that hands the remainder over at the end of the file only.
LeaveLoopDropsOnError(why, more) ==
  /\ stop' = [stop EXCEPT ![idx] = why]
  /\ unread' = IF more THEN unread \cup {idx} ELSE unread
  /\ IF HasRemainder(batchData) /\ why = "eof"
       THEN CallIndex(batchData, "rest")
       ELSE /\ pc' = "fetch"
            /\ UNCHANGED <<bulk, wire>>
  /\ UNCHANGED <<nEvents, idx, pos, batchData, fetched, fatal, cause,
                 skipped, nread>>

\* Scan returned false: the decode loop is left, and the remainder is handed
\* to the bulk call or, with none, the next upload-event record is turned to.
LeaveLoop(why, more) ==
  /\ stop' = [stop EXCEPT ![idx] = why]
  /\ unread' = IF more THEN unread \cup {idx} ELSE unread
  /\ IF HasRemainder(batchData)
       THEN CallIndex(batchData, "rest")
       ELSE /\ pc' = "fetch"
            /\ UNCHANGED <<bulk, wire>>
  /\ UNCHANGED <<nEvents, idx, pos, batchData, fetched, fatal, cause,
                 skipped, nread>>

\* Scan finds the end of the file.
ScanEnd ==
  /\ pc = "scan"
  /\ UNCHANGED <<nvars, rvars>>
  /\ rerr = "nil"
  /\ rerr' = rerr
  /\ LeaveLoop("eof", FALSE)

\* Scan finds a corrupt block: it stores the error and returns false.  What
\* the file holds behind the corrupt block stays unread.  The handler does
\* not look at ocfr.Err(), so it cannot tell this from the end of the file.
ScanCorrupt ==
  /\ pc = "scan"
  /\ UNCHANGED <<nvars, rvars>>
  /\ rerr = "nil"
  /\ rerr' = "block"
  /\ \E more \in BOOLEAN : LeaveLoop("block", more)

\* Scan after a failed Read: OCFReader.Scan returns false at once when rerr
\* is set, whatever the file holds behind the failed datum.
ScanAfterError ==
  /\ pc = "scan"
  /\ UNCHANGED <<nvars, rvars>>
  /\ rerr = "datum"
  /\ rerr' = rerr
  /\ \E more \in BOOLEAN : LeaveLoop("datum", more)

\* The bulk call returns what IndexError makes of the backend's answer.
Returned(resp) ==
  bulk' = [bulk EXCEPT ![Len(bulk)] =
             [@ EXCEPT !.resp = resp, !.err = IndexError(resp)]]

\* AfterFull that keeps a batch whose call failed, to send it again.
AfterFullKeepsFailed(err) ==
  /\ batchData' = IF err = <<"nil">> THEN << >> ELSE batchData
  /\ pc' = "scan"

\* What the handler does with the error of a bulk call inside the decode
\* loop: it prints it, resets batchData and goes on with the loop.
AfterFull(err) ==
  /\ batchData' = ResetBatch(batchData)
  /\ pc' = "scan"

\* AfterRest that returns from the handler when the call failed.
AfterRestReturnsOnError(err) ==
  /\ batchData' = batchData
  /\ pc' = IF err = <<"nil">> THEN "fetch" ELSE "done"

\* AfterRest that calls again for a remainder whose call failed.
AfterRestRetriesFailed(err) ==
  /\ batchData' = batchData
  /\ pc' = IF err = <<"nil">> THEN "fetch" ELSE "indexRest"

\* What the handler does with the error of the bulk call of the remainder:
\* it prints it and turns to the next upload-event record.
AfterRest(err) ==
  /\ batchData' = batchData
  /\ pc' = "fetch"

\* The bulk call of a full batchData returns.
IndexFullReturns ==
  /\ pc = "indexFull"
  /\ UNCHANGED <<nvars, rvars>>
  /\ \E resp \in Responses :
       /\ Returned(resp)
       /\ AfterFull(IndexError(resp))
  /\ UNCHANGED <<nEvents, idx, pos, rerr, wire, fetched, fatal, cause,
                 skipped, nread, stop, unread>>

\* The bulk call of the remainder returns.
IndexRestReturns ==
  /\ pc = "indexRest"
  /\ UNCHANGED <<nvars, rvars>>
  /\ \E resp \in Responses :
       /\ Returned(resp)
       /\ AfterRest(IndexError(resp))
  /\ UNCHANGED <<nEvents, idx, pos, rerr, wire, fetched, fatal, cause,
                 skipped, nread, stop, unread>>

Next ==
  \/ Finish
  \/ GetObjectFails
  \/ NewReaderFails
  \/ FetchOpens
  \/ ReadRecord
  \/ ReadNotMap
  \/ ReadError
  \/ ScanEnd
  \/ ScanCorrupt
  \/ ScanAfterError
  \/ IndexFullReturns
  \/ IndexRestReturns

Spec == Init /\ [][Next]_vars

\* ---- what the claims speak of --------------------------------------------

\* The bulk calls made for the file of upload-event record i, in order.
Calls(i) == SelectSeq(bulk, LAMBDA e : e.file = i)

\* The records of file i the decode loop accepted, in decode order.
Accepted(i) ==
  SelectSeq([p \in 1..nread[i] |-> <<i, p>>], LAMBDA r : r \notin skipped)

\* The decode loop of file i has been left and its last bulk call returned.
Closed(i) ==
  /\ i \in 1..idx
  /\ stop[i] # "none"
  /\ i = idx => pc \in {"fetch", "done"}

\* A bulk call that returned an error.
Failed(e) == e.err \notin {<<"nil">>, <<"pending">>}

\* C1: when a file's processing is over, the bulk calls made for it are
\* floor(N/BatchSize) calls of BatchSize records each, then one call with the
\* N mod BatchSize remaining records if there are any, and their documents
\* in order are the N accepted records of the file in decode order.
C1_BatchesPartitionAccepted ==
  \A i \in 1..idx :
    Closed(i) =>
      LET acc == Accepted(i)
          n == Len(acc)
          c == Calls(i)
          full == n \div BatchSize
          rest == n % BatchSize
      IN  /\ Len(c) = full + (IF rest > 0 THEN 1 ELSE 0)
          /\ \A k \in 1..full :
               /\ k <= Len(c)
               /\ c[k].docs = SubSeq(acc, (k - 1) * BatchSize + 1, k * BatchSize)
          /\ rest > 0 =>
               /\ Len(c) > 0
               /\ c[Len(c)].docs = SubSeq(acc, full * BatchSize + 1, n)

\* C1's case: a file that gave a full batch and a remainder.
C1_Witness ==
  \E i \in 1..idx :
    /\ Closed(i)
    /\ Len(Accepted(i)) > BatchSize
    /\ Len(Accepted(i)) % BatchSize > 0
    /\ Len(Calls(i)) = 2

\* The number of records of file i the decode loop accepted.
NAccepted(i) == nread[i] - Cardinality({r \in skipped : r[1] = i})

\* The elements of a sequence.
Range(s) == {s[k] : k \in DOMAIN s}

\* The documents of all bulk calls so far, in the order they were sent.
AllDocs ==
  LET f[k \in 0..Len(bulk)] ==
        IF k = 0 THEN << >> ELSE f[k - 1] \o bulk[k].docs
  IN  f[Len(bulk)]

\* The number of documents in the calls of a sequence of bulk calls.
SumDocs(c) ==
  LET f[k \in 0..Len(c)] == IF k = 0 THEN 0 ELSE f[k - 1] + Len(c[k].docs)
  IN  f[Len(c)]

\* C2: batchData never holds more than BatchSize records, and every batch
\* handed to indexBatchToOpenSearch holds between 1 and BatchSize records.
C2_BatchBounded ==
  /\ Len(batchData) <= BatchSize
  /\ \A k \in 1..Len(bulk) :
       /\ Len(bulk[k].docs) >= 1
       /\ Len(bulk[k].docs) <= BatchSize

\* C2's case: a batch of exactly BatchSize records is in the bulk call.
C2_Witness ==
  /\ pc = "indexFull"
  /\ Len(batchData) = BatchSize
  /\ Len(bulk[Len(bulk)].docs) = BatchSize

\* C3, as claimed: when a corrupt block stopped the reader of a file, the
\* remainder accumulated so far is not handed to the bulk call.
C3_NoFlushAfterCorruptBlock ==
  \A i \in 1..idx :
    stop[i] = "block" =>
      \A k \in 1..Len(bulk) : ~(bulk[k].file = i /\ bulk[k].site = "rest")

\* C4: no bulk call is made, and no POST sent, for the file of an
\* upload-event record whose GetObject or NewOCFReader failed.
C4_NoDispatchOnFatal ==
  fatal # 0 =>
    /\ \A k \in 1..Len(bulk) : bulk[k].file # fatal
    /\ \A k \in 1..Len(wire) : wire[k].file # fatal

\* C4's case: the second record's file has a corrupt header, after the first
\* record's file was dispatched.
C4_Witness ==
  /\ fatal = 2
  /\ cause = "header"
  /\ Len(bulk) > 0

\* C5, as claimed: a skipped record is in no batch and no payload, and a
\* decode loop that was not stopped by a corrupt block has read every datum
\* of its file.
C5_SkippedAndLoopContinues ==
  /\ \A r \in skipped :
       /\ \A k \in 1..Len(batchData) : batchData[k] # r
       /\ \A k \in 1..Len(bulk) :
            \A j \in 1..Len(bulk[k].docs) : bulk[k].docs[j] # r
  /\ \A i \in 1..idx :
       stop[i] \in {"eof", "datum"} => i \notin unread

\* C6: a bulk call that returned an error halts nothing: the decode loop of
\* its file goes on until the reader stops, every record the file's loop
\* accepted is handed to a bulk call, and the handler returns only after the
\* last upload-event record or on a fatal error.
C6_DispatchFailureDoesNotHalt ==
  \A k \in 1..Len(bulk) :
    Failed(bulk[k]) =>
      LET i == bulk[k].file
      IN  /\ (i < idx \/ pc \in {"fetch", "done"}) => stop[i] # "none"
          /\ Closed(i) => SumDocs(Calls(i)) = NAccepted(i)
          /\ (pc = "done" /\ fatal = 0) => idx = nEvents

\* C6's case: a bulk call for the first file failed and the second file was
\* decoded and dispatched.
C6_Witness ==
  /\ Len(bulk) = 2
  /\ Failed(bulk[1])
  /\ bulk[1].file = 1
  /\ bulk[2].file = 2
  /\ pc = "done"

\* C7: once GetObject or NewOCFReader failed for an upload-event record the
\* handler has returned, and no later record is fetched, decoded or
\* dispatched.
C7_FatalReturnsFromHandler ==
  fatal # 0 =>
    /\ pc = "done"
    /\ \A j \in fetched : j <= fatal
    /\ \A k \in 1..Len(bulk) : bulk[k].file < fatal
    /\ \A j \in 1..nEvents : j >= fatal => (nread[j] = 0 /\ stop[j] = "none")

\* C7's case: the first of two upload-event records failed.
C7_Witness ==
  /\ nEvents = 2
  /\ fatal = 1
  /\ pc = "done"

\* C8: no record is in more than one bulk call or twice in one, and while
\* the decode loop runs batchData holds no record already handed to a bulk
\* call, whatever the calls returned.
C8_NoRetry ==
  Len(bulk) > 0 =>
    LET all == AllDocs
    IN  /\ Cardinality(Range(all)) = Len(all)
        /\ pc = "scan" => Range(batchData) \cap Range(all) = {}

\* C8's case: the bulk call of a full batch failed and the loop went on to
\* accept another record.
C8_Witness ==
  /\ pc = "scan"
  /\ Len(bulk) = 1
  /\ bulk[1].site = "full"
  /\ Failed(bulk[1])
  /\ Len(batchData) > 0

\* C9: no bulk call and no POST carries an empty batch, and a file whose
\* accepted records are a multiple of BatchSize, zero included, gets no call
\* after its decode loop.
C9_NoEmptyDispatch ==
  /\ \A k \in 1..Len(bulk) : bulk[k].docs # << >>
  /\ \A k \in 1..Len(wire) : wire[k].ndocs # 0
  /\ \A i \in 1..idx :
       (Closed(i) /\ NAccepted(i) % BatchSize = 0) =>
         /\ Len(Calls(i)) = NAccepted(i) \div BatchSize
         /\ \A k \in 1..Len(bulk) : bulk[k].file = i => bulk[k].site = "full"

\* C9's case: a file of exactly BatchSize accepted records is over.
C9_Witness ==
  /\ Closed(1)
  /\ NAccepted(1) = BatchSize
  /\ Len(bulk) = 1

\* C10: every bulk call sent exactly one POST, and a call that returned gave
\* nil exactly when the POST got a response of status 200; otherwise its
\* error carries the transport's cause or the response's status.
C10_NilIffStatusOK ==
  /\ Len(wire) = Len(bulk)
  /\ \A k \in 1..Len(bulk) :
       LET e == bulk[k]
       IN  /\ wire[k] = [file |-> e.file, ndocs |-> Len(e.docs)]
           /\ e.resp # Pending =>
                /\ e.err = <<"nil">> <=>
                     (e.resp.cause = "nil" /\ e.resp.status = StatusOK)
                /\ (e.resp.cause # "nil") => e.err[2] = e.resp.cause
                /\ (e.resp.cause = "nil" /\ e.resp.status # StatusOK) =>
                     e.err[2] = e.resp.status

\* C10's case: the backend answered a call with status 500.
C10_Witness ==
  \E k \in 1..Len(bulk) :
    /\ bulk[k].resp # Pending
    /\ bulk[k].resp.status = 500
    /\ bulk[k].err = <<"error response", 500>>

\* ---- the normalizer: the range loop over rawDatum ------------------------

\* A decoded value: a string, a number (named by its shortest literal), or a
\* mapping from tags or field names to scalars, kept as a set of
\* <<key, kind, payload>> entries.
Str(x) == [k |-> "str", s |-> x, m |-> {}]
Num(x) == [k |-> "num", s |-> x, m |-> {}]
Map(es) == [k |-> "map", s |-> "", m |-> es]

\* The fields the loop converts to numbers, in the order of its six blocks.
CoercionTable ==
  <<"totalSales", "maxPrice", "fansIncRate", "avgViewDuration",
    "avgSalePrice", "salesTransRate">>

\* The field names of the records drawn: two of the table and one outside it.
FieldNames == {"totalSales", "avgSalePrice", "name"}

\* The values drawn for a field: plain strings that parse or do not, a
\* number, the union ["null", "string"] around a string, mappings with
\* another tag or with "string" over a number, and a two-entry mapping.
RawValues ==
  { Str("12.5"), Str("1e1"), Str("bad"), Str("NaN"), Num("3"),
    Map({<<"string", "str", "12.5">>}),
    Map({<<"string", "str", "bad">>}),
    Map({<<"long", "num", "7">>}),
    Map({<<"string", "num", "7">>}),
    Map({<<"string", "str", "12.5">>, <<"long", "num", "7">>}) }

\* The records drawn: every choice of fields and of a value for each.
RawRecords == UNION { [D -> RawValues] : D \in SUBSET FieldNames }

\* The orders in which range may yield the keys of a map.
Orders(D) ==
  { o \in [1..Cardinality(D) -> D] : \A i, j \in DOMAIN o : o[i] = o[j] => i = j }

\* strconv.ParseFloat(x, 64) on the strings of the model: the number read,
\* named by its shortest literal, or an error.
ParseFloat(x) ==
  CASE x = "12.5" -> [ok |-> TRUE, val |-> "12.5"]
    [] x = "1e1"  -> [ok |-> TRUE, val |-> "10"]
    [] x = "NaN"  -> [ok |-> TRUE, val |-> "NaN"]
    [] OTHER      -> [ok |-> FALSE, val |-> ""]

\* valueMap["string"].(string): the string under the key "string", if any.
StringEntry(v) == { e \in v.m : e[1] = "string" /\ e[2] = "str" }

\* Unwrap that assigns the string to the loop's own copy of the value.
UnwrapToLocal(rec, key) == rec

\* Lines 74-78: a value that is a map holding a string under "string" is
\* replaced by that string.
Unwrap(rec, key) ==
  IF rec[key].k = "map" /\ StringEntry(rec[key]) # {}
    THEN [rec EXCEPT ![key] = Str((CHOOSE e \in StringEntry(rec[key]) : TRUE)[3])]
    ELSE rec

\* Coerce that ignores ParseFloat's error and stores the zero it returned.
CoerceIgnoringError(rec, f) ==
  IF f \in DOMAIN rec /\ rec[f].k = "str"
    THEN [rec EXCEPT ![f] =
            Num(IF ParseFloat(rec[f].s).ok THEN ParseFloat(rec[f].s).val ELSE "0")]
    ELSE rec

\* One of the six blocks of lines 80-132: a field that holds a string which
\* ParseFloat reads is replaced by the number.
Coerce(rec, f) ==
  IF f \in DOMAIN rec /\ rec[f].k = "str" /\ ParseFloat(rec[f].s).ok
    THEN [rec EXCEPT ![f] = Num(ParseFloat(rec[f].s).val)]
    ELSE rec

\* The six blocks one after the other.
CoerceAll(rec) ==
  LET f[n \in 0..Len(CoercionTable)] ==
        IF n = 0 THEN rec ELSE Coerce(f[n - 1], CoercionTable[n])
  IN  f[Len(CoercionTable)]

\* Body with the six blocks ahead of the unwrapping.
BodyCoerceFirst(rec, key) == Unwrap(CoerceAll(rec), key)

\* One turn of the range loop, for the key it yields.
Body(rec, key) == CoerceAll(Unwrap(rec, key))

\* The handler and the renderer at rest.
HandlerIdle ==
  /\ nEvents = 0
  /\ idx = 0
  /\ pc = "done"
  /\ pos = 0
  /\ rerr = "nil"
  /\ batchData = << >>
  /\ bulk = << >>
  /\ wire = << >>
  /\ fetched = {}
  /\ fatal = 0
  /\ cause = "none"
  /\ skipped = {}
  /\ nread = << >>
  /\ stop = << >>
  /\ unread = {}

\* Read handed the loop a field mapping; range fixes the order of its keys.
InitNorm ==
  /\ HandlerIdle
  /\ RenderIdle
  /\ \E r \in RawRecords :
       /\ rawDatum = r
       /\ datum0 = r
       /\ todo \in Orders(DOMAIN r)
  /\ pass = 1
  /\ first = << >>

\* One turn of the range loop.
RangeStep ==
  /\ pass \in {1, 2}
  /\ todo # << >>
  /\ rawDatum' = Body(rawDatum, Head(todo))
  /\ todo' = Tail(todo)
  /\ UNCHANGED <<datum0, pass, first, vars, rvars>>

\* The normalized record is put through the loop once more.
RangeAgain ==
  /\ pass = 1
  /\ todo = << >>
  /\ pass' = 2
  /\ first' = rawDatum
  /\ todo' \in Orders(DOMAIN rawDatum)
  /\ UNCHANGED <<rawDatum, datum0, vars, rvars>>

NextNorm ==
  \/ RangeStep
  \/ RangeAgain

SpecNorm == InitNorm /\ [][NextNorm]_<<vars, nvars, rvars>>

\* The value the unwrap rule makes of a value.
Unwrapped(v) ==
  IF v.k = "map" /\ StringEntry(v) # {}
    THEN Str((CHOOSE e \in StringEntry(v) : TRUE)[3])
    ELSE v

\* The range loop of the first normalization is over.
Normalized == pass = 2 \/ (pass = 1 /\ todo = << >>)

\* C12: after normalization the record has the fields it had; a table field
\* whose unwrapped value is a string that parses holds the number, one whose
\* string does not parse holds that string, and a value that is no string
\* or a field outside the table holds its unwrapped value.
C12_CoercionOfTableFields ==
  (pass = 1 /\ todo = << >>) =>
    /\ DOMAIN rawDatum = DOMAIN datum0
    /\ \A f \in DOMAIN datum0 :
         LET u == Unwrapped(datum0[f])
             table == \E n \in DOMAIN CoercionTable : CoercionTable[n] = f
         IN  IF table /\ u.k = "str" /\ ParseFloat(u.s).ok
               THEN rawDatum[f] = Num(ParseFloat(u.s).val)
               ELSE rawDatum[f] = u

\* C12's case: a wrapped string that parses became a number, a string that
\* does not parse stayed, and a parsing string outside the table stayed.
C12_Witness ==
  /\ pass = 1
  /\ todo = << >>
  /\ DOMAIN datum0 = FieldNames
  /\ datum0["totalSales"] = Map({<<"string", "str", "12.5">>})
  /\ rawDatum["totalSales"] = Num("12.5")
  /\ datum0["avgSalePrice"] = Str("bad")
  /\ rawDatum["avgSalePrice"] = Str("bad")
  /\ datum0["name"] = Str("1e1")
  /\ rawDatum["name"] = Str("1e1")

\* C13: a normalized record has no value that the unwrap rule recognizes,
\* and a second normalization, in whatever order, changes nothing at any of
\* its turns.
C13_NormalizeIdempotent ==
  Normalized =>
    /\ \A f \in DOMAIN rawDatum :
         ~(rawDatum[f].k = "map" /\ StringEntry(rawDatum[f]) # {})
    /\ pass = 2 => rawDatum = first

\* C13's case: a record with a wrapped string went through both
\* normalizations.
C13_Witness ==
  /\ pass = 2
  /\ todo = << >>
  /\ \E f \in DOMAIN datum0 : datum0[f] = Map({<<"string", "str", "bad">>})
  /\ \E f \in DOMAIN datum0 : datum0[f] = Str("1e1") /\ rawDatum[f] = Num("10")

\* The two-pass procedure: every field unwrapped, then every table field
\* coerced.
TwoPass(rec) ==
  CoerceAll([f \in DOMAIN rec |-> Unwrapped(rec[f])])

\* C15: whatever the order of the keys, the loop leaves the record the
\* two-pass procedure makes of the decoded one.
C15_LoopEqualsTwoPass ==
  (pass = 1 /\ todo = << >>) => rawDatum = TwoPass(datum0)

\* C15's case: a record of three fields whose wrapped table field was
\* unwrapped and coerced.
C15_Witness ==
  /\ pass = 1
  /\ todo = << >>
  /\ DOMAIN datum0 = FieldNames
  /\ datum0["avgSalePrice"] = Str("1e1")
  /\ rawDatum["avgSalePrice"] = Num("10")
  /\ datum0["totalSales"] = Map({<<"string", "str", "12.5">>})
  /\ rawDatum["totalSales"] = Num("12.5")

\* C16, as claimed: the loop leaves a mapping as it is unless it is a
\* single-entry mapping with a recognized tag.
C16_UnwrapOnlySingleEntry ==
  pass = 1 =>
    \A f \in DOMAIN datum0 :
      (datum0[f].k = "map"
         /\ ~(Cardinality(datum0[f].m) = 1 /\ StringEntry(datum0[f]) # {}))
        => rawDatum[f] = datum0[f]

\* ---- the renderer: the loop that fills the request body ------------------

\* Records in a batch handed to the renderer.
MaxDocs == 2

\* What is written to the buffer: an action descriptor, a document, the
\* newline.
ActionLine(verb, target, id) == <<"action", verb, target, id>>
DocLine(body, upsert) == <<"doc", body, upsert>>
Newline == <<"\n">>

\* The normalized records drawn for a batch: with a string id, a number for
\* id or none, and with a number, an unparsed string, the number NaN (what
\* ParseFloat makes of "NaN") or no value for totalSales.
RenderDocs ==
  UNION { [D -> {Str("p1"), Str("bad"), Num("7"), Num("12.5"), Num("NaN")}] :
            D \in SUBSET {"id", "totalSales"} }

\* The bulk action policies: this pipeline's plain insert into "live", and
\* the update-with-upsert on the identity key "id" into "products".
Policies == {"index", "upsert"}

\* The keys of the records of the model in the order json.Marshal writes the
\* keys of a map: sorted.
KeyOrder == <<"avgSalePrice", "id", "name", "totalSales">>

\* The JSON object of a record: its key/value pairs, keys sorted, a string
\* quoted and a number as its literal.
ObjectOf(rec) ==
  LET keys == SelectSeq(KeyOrder, LAMBDA f : f \in DOMAIN rec)
  IN  [n \in 1..Len(keys) |->
         <<keys[n], IF rec[keys[n]].k = "str" THEN "string"
                    ELSE IF rec[keys[n]].k = "num" THEN "number" ELSE "object",
           rec[keys[n]].s, rec[keys[n]].m>>]

\* json.Marshal(data): the object, or an error and no bytes for a record
\* that holds a number JSON cannot write (NaN).
Marshal(rec) ==
  IF \E f \in DOMAIN rec : rec[f] = Num("NaN")
    THEN [ok |-> FALSE, bytes |-> << >>]
    ELSE [ok |-> TRUE, bytes |-> << DocLine(ObjectOf(rec), FALSE) >>]

\* Lines 165-174: what one turn of the loop writes for a record: the
\* descriptor {"index": {"_index": "live"}}, a newline, the bytes Marshal
\* returned, its error dropped, and a newline.
IndexLines(data) ==
  << ActionLine("index", "live", "") >> \o << Newline >>
    \o Marshal(data).bytes \o << Newline >>

\* UpsertLines that takes any id, string or not, for the identity key.
UpsertLinesAnyId(data) ==
  IF "id" \in DOMAIN data
    THEN << ActionLine("update", "products", data["id"].s), Newline,
            DocLine(ObjectOf(data), TRUE), Newline >>
    ELSE << >>

\* What the upsert pipeline writes for a record: nothing without a string
\* under the identity key, else the descriptor with the key's value and the
\* record wrapped as the document to update or insert.
UpsertLines(data) ==
  IF "id" \in DOMAIN data /\ data["id"].k = "str"
    THEN << ActionLine("update", "products", data["id"].s), Newline,
            DocLine(ObjectOf(data), TRUE), Newline >>
    ELSE << >>

\* indexBatchToOpenSearch is handed a batch, under one of the policies.
InitRender ==
  /\ HandlerIdle
  /\ NormIdle
  /\ policy \in Policies
  /\ inBatch \in UNION { [1..n -> RenderDocs] : n \in 0..MaxDocs }
  /\ done = 0
  /\ buffer = << >>

\* One turn of the loop of lines 164-175.
RenderIndexTurn ==
  /\ policy = "index"
  /\ done < Len(inBatch)
  /\ buffer' = buffer \o IndexLines(inBatch[done + 1])
  /\ done' = done + 1
  /\ UNCHANGED <<policy, inBatch, vars, nvars>>

\* One turn of the loop of the upsert pipeline.
RenderUpsertTurn ==
  /\ policy = "upsert"
  /\ done < Len(inBatch)
  /\ buffer' = buffer \o UpsertLines(inBatch[done + 1])
  /\ done' = done + 1
  /\ UNCHANGED <<policy, inBatch, vars, nvars>>

NextRender ==
  \/ RenderIndexTurn
  \/ RenderUpsertTurn

SpecRender == InitRender /\ [][NextRender]_<<vars, nvars, rvars>>

\* C11, as claimed: the payload of a batch of B records is 2*B lines, each
\* ended by a newline; for the k-th record the action descriptor
\* (index, "live") and then the record's document.
C11_TwoLinesPerRecord ==
  (policy = "index" /\ done = Len(inBatch)) =>
    /\ Len(buffer) = 4 * Len(inBatch)
    /\ \A n \in 1..Len(inBatch) :
         /\ buffer[4 * n - 3] = ActionLine("index", "live", "")
         /\ buffer[4 * n - 2] = Newline
         /\ buffer[4 * n - 1] = DocLine(ObjectOf(inBatch[n]), FALSE)
         /\ buffer[4 * n] = Newline

\* The records of the batch that have a string under the identity key.
Keyed == SelectSeq(inBatch, LAMBDA d : "id" \in DOMAIN d /\ d["id"].k = "str")

\* C14: under the upsert policy the payload holds one action/document pair
\* for each record with a string identity key, in order, and none for the
\* others; the pair names the key's value and carries the record's fields
\* as they are.
C14_UpsertPairsForKeyedRecords ==
  (policy = "upsert" /\ done = Len(inBatch)) =>
    /\ Len(buffer) = 4 * Len(Keyed)
    /\ \A n \in 1..Len(Keyed) :
         /\ buffer[4 * n - 3] = ActionLine("update", "products", Keyed[n]["id"].s)
         /\ buffer[4 * n - 2] = Newline
         /\ buffer[4 * n - 1] = DocLine(ObjectOf(Keyed[n]), TRUE)
         /\ buffer[4 * n] = Newline

\* C14's case: of two records one has no identity key and the other's pair
\* is the whole payload.
C14_Witness ==
  /\ policy = "upsert"
  /\ Len(inBatch) = 2
  /\ done = 2
  /\ "id" \notin DOMAIN inBatch[1]
  /\ Len(Keyed) = 1
  /\ Len(buffer) = 4

\* ---- the handler again: ownership, order and completeness ----------------

\* C17: the decode loop of every file starts with an empty batchData, and
\* the documents of a bulk call, when it is made, are all records of one
\* file, the one being decoded.
C17_BatchOfOneFile ==
  /\ (pc = "scan" /\ pos = 0) => batchData = << >>
  /\ pc \in {"indexFull", "indexRest"} =>
       LET call == bulk[Len(bulk)]
       IN  /\ call.file = idx
           /\ \A n \in 1..Len(call.docs) : call.docs[n][1] = idx

\* C17's case: the first file left a remainder whose bulk call failed, and
\* the second file's remainder is in its bulk call.
C17_Witness ==
  /\ idx = 2
  /\ pc = "indexRest"
  /\ Len(bulk) = 2
  /\ Failed(bulk[1])
  /\ bulk[1].docs = << <<1, 1>> >>
  /\ bulk[2].docs = << <<2, 1>> >>
  /\ batchData = << <<2, 1>> >>

\* The bulk calls that have not returned.
InFlight == {k \in 1..Len(bulk) : bulk[k].resp = Pending}

\* C18: at most one bulk call is in flight, and while one is the handler
\* stands inside it: it is the last call made, it belongs to the current
\* upload-event record, every call sent one request, and no datum is read,
\* no record appended and no object fetched before it returns.
C18_OneDispatchAtATime ==
  /\ [](/\ Cardinality(InFlight) <= 1
        /\ InFlight # {} <=> pc \in {"indexFull", "indexRest"}
        /\ \A k \in InFlight : k = Len(bulk) /\ bulk[k].file = idx
        /\ Len(wire) = Len(bulk))
  /\ [][InFlight # {} =>
          /\ idx' = idx
          /\ fetched' = fetched
          /\ pos' = pos
          /\ nread' = nread
          /\ Len(batchData') <= Len(batchData)
          /\ Len(bulk') = Len(bulk)]_vars

\* C18's case: the second upload-event record's bulk call is in flight and
\* the first one's has returned.
C18_Witness ==
  /\ idx = 2
  /\ Len(bulk) = 2
  /\ bulk[1].file = 1
  /\ bulk[1].resp # Pending
  /\ InFlight = {2}

\* The documents of a sequence of bulk calls, one after the other.
Flat(c) ==
  LET f[k \in 0..Len(c)] == IF k = 0 THEN << >> ELSE f[k - 1] \o c[k].docs
  IN  f[Len(c)]

\* The accepted records of file i that no bulk call has been handed yet.
Undispatched(i) ==
  IF i = idx /\ pc = "scan" THEN Len(batchData) ELSE 0

\* C19: every accepted record of a file is in batchData until it is handed
\* to a bulk call of that file, and once HandleRequest has returned the
\* documents of the bulk calls of every file are its accepted records, each
\* once: none is left behind in batchData.
C19_AcceptedDispatchedOnce ==
  /\ \A i \in 1..idx :
       NAccepted(i) = SumDocs(Calls(i)) + Undispatched(i)
  /\ pc = "done" => \A i \in 1..idx : Flat(Calls(i)) = Accepted(i)

\* C19's case: the handler returned early on the second upload-event record
\* and the record accepted from the first file went out in a bulk call.
C19_Witness ==
  /\ pc = "done"
  /\ fatal = 2
  /\ NAccepted(1) = 1
  /\ Len(bulk) = 1
  /\ bulk[1].docs = Accepted(1)

\* The handler runs on: a step that can be taken is taken, since the reads
\* of the byte source and the bulk calls return.
FairSpec == Spec /\ WF_vars(Next)

\* C20: HandleRequest returns.
C20_Terminates == <>(pc = "done")

\* C20's case: the handler returned after a datum failed to decode, a datum
\* was not a field mapping and a bulk call failed.
C20_Witness ==
  /\ pc = "done"
  /\ fatal = 0
  /\ \E i \in 1..nEvents : stop[i] = "datum"
  /\ Cardinality(skipped) >= 2
  /\ \E k \in 1..Len(bulk) : Failed(bulk[k])

====
